---- MODULE Spec2Model ----
(***************************************************************************)
(* A model of the clvm runtime's keyword tables (clvm/runtime_001.py) and  *)
(* of the run/brun command line driver launch_tool (clvm_tools/cmds.py).   *)
(*                                                                         *)
(* Python values are modelled as follows.                                  *)
(*   bytes            a sequence of numbers 0..255                         *)
(*   str              a TLA+ string                                        *)
(*   dict             the sequence of its <<key, value>> items in          *)
(*                    insertion order                                      *)
(*   SExp             <<"a", bytes>> for an atom, <<"p", first, rest>> for *)
(*                    a pair                                               *)
(*   an exception     the string naming its class                          *)
(***************************************************************************)
EXTENDS Integers, Sequences, FiniteSets, TLC

VARIABLES
    pc,                 \* position of the process: module import, then launch_tool
    i,                  \* loop index of the comprehension being evaluated at import
    KEYWORD_FROM_ATOM,  \* runtime_001.py:27
    KEYWORD_TO_ATOM,    \* runtime_001.py:28
    reduce_f,           \* runtime_001.py:49, the opcodes handed to make_reduce_f
    deserialize_and_run_program, \* cmds.py:20-23, "None" when clvm_rs is missing
    tool_name,          \* "run" or "brun"
    args,               \* the parsed command line
    input_serialized,   \* cmds.py:186
    input_sexp,         \* cmds.py:187
    pre_eval_f,         \* cmds.py:215, "None" or the trace hook
    symbol_table,       \* cmds.py:216
    call,               \* what launch_tool handed to the evaluator
    cost_offset,        \* cmds.py:230
    oracle,             \* what the evaluated program does: its cost, whether it raises
    outcome,            \* how the evaluator call ended
    cost,               \* cmds.py:229
    printed,            \* the lines written to stdout, in order
    ret                 \* how launch_tool ended: "running", "None", "-1" or an exception

vars == <<pc, i, KEYWORD_FROM_ATOM, KEYWORD_TO_ATOM, reduce_f,
          deserialize_and_run_program, tool_name, args, input_serialized,
          input_sexp, pre_eval_f, symbol_table, call, cost_offset, oracle, outcome,
          cost, printed, ret>>

\* None where the other values are strings
None == "None"
\* an optional bytes, SExp or record value: <<>> is None, <<v>> is v
Nothing == <<>>
Some(v) == <<v>>

(***************************************************************************)
(* Bounds of the model.                                                    *)
(***************************************************************************)
\* --max-cost ranges over -1..MaxMaxCost
MaxMaxCost == 1
\* the calibration run of calculate_cost_offset costs 53-MaxCalibSkew..53+MaxCalibSkew
MaxCalibSkew == 1
\* the raw cost of the evaluated program ranges over 1..MaxRawCost
MaxRawCost == 2

(***************************************************************************)
(* Python dicts.                                                           *)
(***************************************************************************)
DictKeys(d) == {d[n][1] : n \in 1..Len(d)}

DictHas(d, k) == k \in DictKeys(d)

DictGet(d, k) == d[CHOOSE n \in 1..Len(d) : d[n][1] = k][2]

\* d[k] = v: a new key is appended, an existing key keeps its place
DictSet(d, k, v) ==
    IF DictHas(d, k)
    THEN [n \in 1..Len(d) |-> IF d[n][1] = k THEN <<k, v>> ELSE d[n]]
    ELSE Append(d, <<k, v>>)

\* d.get(k, default)
DictGetDefault(d, k, default) == IF DictHas(d, k) THEN DictGet(d, k) ELSE default

(***************************************************************************)
(* clvm.casts.int_to_bytes, for v >= 0: the minimal big-endian two's       *)
(* complement encoding; 0 is the empty atom.                               *)
(***************************************************************************)
RECURSIVE BitLength(_)
BitLength(v) == IF v = 0 THEN 0 ELSE 1 + BitLength(v \div 2)

RECURSIVE ToBytesBE(_, _)
ToBytesBE(v, n) == IF n = 0 THEN <<>> ELSE Append(ToBytesBE(v \div 256, n - 1), v % 256)

int_to_bytes(v) == IF v = 0 THEN <<>> ELSE ToBytesBE(v, (BitLength(v) + 8) \div 8)

(***************************************************************************)
(* clvm/runtime_001.py: the keyword tables.                                *)
(***************************************************************************)
KEYWORDS ==
    << ".", "q", "e", "a", "i", "c", "f", "r", "l", "x", "=", "sha256", "+", "-",
       "*", ".", "wrap", "unwrap", "point_add", "pubkey_for_exp" >>

OP_REWRITE ==
    << <<"+", "add">>, <<"-", "subtract">>, <<"*", "multiply">>, <<"/", "divide">>,
       <<"i", "if">>, <<"c", "cons">>, <<"f", "first">>, <<"r", "rest">>,
       <<"l", "listp">>, <<"x", "raise">>, <<"=", "eq">> >>

\* one step of {int_to_bytes(k): v for k, v in enumerate(KEYWORDS)}
FromAtomInsert(d, k, v) == DictSet(d, int_to_bytes(k), v)

\* a dict comprehension that keeps the first value of a repeated key
ToAtomInsertKeepFirst(d, k, v) == IF DictHas(d, v) THEN d ELSE Append(d, <<v, k>>)

\* one step of {v: k for k, v in KEYWORD_FROM_ATOM.items()}
ToAtomInsert(d, k, v) == DictSet(d, v, k)

(***************************************************************************)
(* S-expressions and their canonical serialization (clvm.serialize).       *)
(***************************************************************************)
Atom(b) == <<"a", b>>

Pair(f, r) == <<"p", f, r>>

nil == Atom(<<>>)

IsPair(v) == v[1] = "p"

\* to_sexp_f of a python 2-tuple of SExp: the pair of the two
to_sexp_f(f, r) == Pair(f, r)

\* the size prefix of an atom of n bytes, for the three narrowest classes
AtomPrefix(n) ==
    IF n < 64 THEN <<128 + n>>
    ELSE IF n < 8192 THEN <<192 + (n \div 256), n % 256>>
    ELSE <<224 + (n \div 65536), (n \div 256) % 256, n % 256>>

RECURSIVE sexp_to_stream(_)
sexp_to_stream(v) ==
    IF IsPair(v) THEN <<255>> \o sexp_to_stream(v[2]) \o sexp_to_stream(v[3])
    ELSE IF v[2] = <<>> THEN <<128>>
    ELSE IF Len(v[2]) = 1 /\ v[2][1] < 128 THEN v[2]
    ELSE AtomPrefix(Len(v[2])) \o v[2]

\* SExp.as_bin
as_bin(v) == sexp_to_stream(v)

BadStream == [ok |-> FALSE, value |-> nil, rest |-> <<>>]

\* the atom of n bytes that follows a size prefix of k bytes
ReadAtom(b, k, n) ==
    IF Len(b) < k + n THEN BadStream
    ELSE [ok |-> TRUE, value |-> Atom(SubSeq(b, k + 1, k + n)),
          rest |-> SubSeq(b, k + n + 1, Len(b))]

\* one value read from the head of the stream b, and what is left of b
RECURSIVE ReadSexp(_)
ReadSexp(b) ==
    IF b = <<>> THEN BadStream
    ELSE IF b[1] = 255 THEN
        LET f == ReadSexp(Tail(b)) IN
        IF ~f.ok THEN BadStream
        ELSE LET r == ReadSexp(f.rest) IN
             IF ~r.ok THEN BadStream
             ELSE [ok |-> TRUE, value |-> Pair(f.value, r.value), rest |-> r.rest]
    ELSE IF b[1] < 128 THEN [ok |-> TRUE, value |-> Atom(<<b[1]>>), rest |-> Tail(b)]
    ELSE IF b[1] < 192 THEN ReadAtom(b, 1, b[1] - 128)
    ELSE IF b[1] < 224 THEN
        IF Len(b) < 2 THEN BadStream ELSE ReadAtom(b, 2, (b[1] - 192) * 256 + b[2])
    ELSE IF b[1] < 240 THEN
        IF Len(b) < 3 THEN BadStream
        ELSE ReadAtom(b, 3, (b[1] - 224) * 65536 + b[2] * 256 + b[3])
    ELSE BadStream

\* sexp_from_stream(io.BytesIO(b), to_sexp_f); the caller checks .ok
sexp_from_stream(b) == ReadSexp(b)

(***************************************************************************)
(* bytes.fromhex and bytes.hex.                                            *)
(***************************************************************************)
HexDigits == "0123456789abcdef"

HexDigitSet == {SubSeq(HexDigits, n, n) : n \in 1..16}

IsHexDigit(c) == c \in HexDigitSet

HexValues == [c \in HexDigitSet |-> (CHOOSE n \in 1..16 : SubSeq(HexDigits, n, n) = c) - 1]

HexValue(c) == HexValues[c]

IsHex(s) ==
    /\ Len(s) % 2 = 0
    /\ \A n \in 1..Len(s) : IsHexDigit(SubSeq(s, n, n))

\* bytes.fromhex(s), for s with IsHex(s); it raises ValueError otherwise
fromhex(s) ==
    [n \in 1..(Len(s) \div 2) |->
        16 * HexValue(SubSeq(s, 2 * n - 1, 2 * n - 1)) + HexValue(SubSeq(s, 2 * n, 2 * n))]

RECURSIVE hex(_)
hex(b) ==
    IF b = <<>> THEN ""
    ELSE SubSeq(HexDigits, (b[1] \div 16) + 1, (b[1] \div 16) + 1)
         \o SubSeq(HexDigits, (b[1] % 16) + 1, (b[1] % 16) + 1)
         \o hex(Tail(b))

(***************************************************************************)
(* The source texts of the model and what reader.read_ir followed by       *)
(* binutils.assemble_from_ir makes of them.                                *)
(***************************************************************************)
ProgramTexts == {"1", "(q . 0xff)", "(q 1"}

EnvTexts == {"()", "(128)", "(1 2"}

\* reader.read_ir raises SyntaxError on these
IsSyntaxError(t) == t \in {"(q 1", "(1 2"}

assemble(t, to_atom) ==
    CASE t = "1"          -> Atom(int_to_bytes(1))
      [] t = "(q . 0xff)" -> Pair(Atom(DictGet(to_atom, "q")), Atom(<<255>>))
      [] t = "()"         -> nil
      [] t = "(128)"      -> Pair(Atom(int_to_bytes(128)), nil)

\* the hexadecimal bytecode of a source text, as opc prints it (cmds.py:73)
opc(t, to_atom) == hex(as_bin(assemble(t, to_atom)))

(***************************************************************************)
(* clvm_tools/cmds.py: launch_tool.                                        *)
(***************************************************************************)
\* the substring test k in s of two python strings
InStr(k, s) ==
    \E m \in 1..(Len(s) + 1) : \E n \in (m - 1)..Len(s) : SubSeq(s, m, n) = k

\* cmds.py:192-194, the environment read in hex mode
HexEnv(env) == IF env = "" THEN "80" ELSE env

\* cmds.py:207-209, the environment read in text mode
TextEnv(env) == IF env = "" THEN "()" ELSE env

\* hex mode without the pair marker
HexModeInputNoMarker(path_or_code, env) == fromhex(path_or_code) \o fromhex(HexEnv(env))

\* cmds.py:191-197
HexModeInput(path_or_code, env) ==
    <<255>> \o fromhex(path_or_code) \o fromhex(HexEnv(env))

\* cmds.py:200-213
TextModeInput(path_or_code, env, to_atom) ==
    to_sexp_f(assemble(path_or_code, to_atom), assemble(TextEnv(env), to_atom))

\* cmds.py:107-120, given the cost of the calibration run
calculate_cost_offset(calibration_cost) == 53 - calibration_cost

\* a backend choice that ignores the trace hook
use_rust_ignoring_hook(tool, hook, backend, drp) ==
    /\ tool # "run"
    /\ (backend = "rust" \/ (drp # None /\ backend # "python"))

\* cmds.py:234-241
use_rust(tool, hook, backend, drp) ==
    /\ tool # "run"
    /\ hook = None
    /\ (backend = "rust" \/ (drp # None /\ backend # "python"))

Max(a, b) == IF a > b THEN a ELSE b

\* cmds.py:242
max_cost(arg_max_cost, offset) ==
    Max(0, IF arg_max_cost # 0 THEN arg_max_cost - offset ELSE 0)

\* cmds.py:253-257, over the first n items of KEYWORD_FROM_ATOM
RECURSIVE native_opcode_names_by_opcode(_, _)
native_opcode_names_by_opcode(from_atom, n) ==
    IF n = 0 THEN <<>>
    ELSE LET d  == native_opcode_names_by_opcode(from_atom, n - 1)
             op == from_atom[n][1]
             k  == from_atom[n][2]
         IN  IF InStr(k, "qa.") THEN d
             ELSE DictSet(d, "op_" \o DictGetDefault(OP_REWRITE, k, k), op)

\* clvm_rs.STRICT_MODE
STRICT_MODE == 1

\* cmds.py:244-266, the arguments of deserialize_and_run_program
RustCall(tool, a, serialized, offset, from_atom, to_atom) ==
    [backend    |-> "rust",
     run_script |-> <<"as_bin", tool>>,
     input      |-> serialized,
     quote_kw   |-> DictGet(to_atom, "q")[1],
     apply_kw   |-> DictGet(to_atom, "a")[1],
     opcodes    |-> native_opcode_names_by_opcode(from_atom, Len(from_atom)),
     max_cost   |-> max_cost(a.max_cost, offset),
     strict     |-> IF a.strict THEN STRICT_MODE ELSE 0]

\* cmds.py:270-275, the arguments of run_program
PythonCall(tool, a, sexp, hook, offset) ==
    [backend    |-> "python",
     run_script |-> <<"sexp", tool>>,
     input      |-> sexp,
     max_cost   |-> max_cost(a.max_cost, offset),
     pre_eval_f |-> hook,
     strict     |-> a.strict]

\* the evaluator: a ceiling of 0 is no ceiling
run_program(ceiling, o) ==
    IF ceiling # 0 /\ o.raw_cost > ceiling
    THEN [kind |-> "EvalError", cost |-> 0, msg |-> "cost exceeded"]
    ELSE IF o.raises
    THEN [kind |-> "EvalError", cost |-> 0, msg |-> "clvm raise"]
    ELSE [kind |-> "ok", cost |-> o.raw_cost, msg |-> ""]

Exception(name) == [kind |-> "Exception", cost |-> 0, msg |-> name]

NoOutcome == [kind |-> "none", cost |-> 0, msg |-> ""]

Oracles ==
    {[raw_cost |-> c, raises |-> FALSE] : c \in 1..MaxRawCost}
        \cup {[raw_cost |-> 1, raises |-> TRUE]}

\* the options of cmds.py:128-175 that reach the evaluator call or the report; the
\* default --max-cost, 10860254871, is above every cost of the model
ArgsOf(hexmode, programs, envs) ==
    [hex : {hexmode}, verbose : BOOLEAN, table : BOOLEAN, symbol_table : {None, "main.sym"},
     cost : BOOLEAN, strict : BOOLEAN, backend : {None, "rust", "python"},
     max_cost : -1..MaxMaxCost, path_or_code : programs, env : envs]

\* the command lines of the model; "" is the env that was not given, "8" is no hex
ArgSpace(to_atom) ==
    ArgsOf(FALSE, ProgramTexts, EnvTexts \cup {""})
        \cup ArgsOf(TRUE,
                    {opc(t, to_atom) : t \in {t \in ProgramTexts : ~IsSyntaxError(t)}}
                        \cup {"8"},
                    {opc(t, to_atom) : t \in {t \in EnvTexts : ~IsSyntaxError(t)}}
                        \cup {"", "8"})

NoArgs ==
    [hex |-> FALSE, verbose |-> FALSE, table |-> FALSE, symbol_table |-> None,
     cost |-> FALSE, strict |-> FALSE, backend |-> None, max_cost |-> 0,
     path_or_code |-> "", env |-> ""]

Init ==
    /\ pc = "import_KEYWORD_FROM_ATOM"
    /\ i = 0
    /\ KEYWORD_FROM_ATOM = <<>>
    /\ KEYWORD_TO_ATOM = <<>>
    /\ reduce_f = Nothing
    /\ deserialize_and_run_program = None
    /\ tool_name = None
    /\ args = NoArgs
    /\ input_serialized = Nothing
    /\ input_sexp = Nothing
    /\ pre_eval_f = None
    /\ symbol_table = None
    /\ call = Nothing
    /\ cost_offset = 0
    /\ oracle = [raw_cost |-> 1, raises |-> FALSE]
    /\ outcome = NoOutcome
    /\ cost = 0
    /\ printed = <<>>
    /\ ret = "running"

launch_vars == <<tool_name, args, input_serialized, input_sexp, pre_eval_f,
                 symbol_table, call, cost_offset, oracle, outcome, cost, printed, ret>>

import_vars == <<i, KEYWORD_FROM_ATOM, KEYWORD_TO_ATOM, reduce_f,
                 deserialize_and_run_program>>

\* runtime_001.py:27, one iteration of the comprehension
ImportKeywordFromAtom ==
    /\ pc = "import_KEYWORD_FROM_ATOM"
    /\ i < Len(KEYWORDS)
    /\ KEYWORD_FROM_ATOM' = FromAtomInsert(KEYWORD_FROM_ATOM, i, KEYWORDS[i + 1])
    /\ i' = IF i + 1 = Len(KEYWORDS) THEN 0 ELSE i + 1
    /\ pc' = IF i + 1 = Len(KEYWORDS) THEN "import_KEYWORD_TO_ATOM" ELSE pc
    /\ UNCHANGED <<KEYWORD_TO_ATOM, reduce_f, deserialize_and_run_program, launch_vars>>

\* runtime_001.py:28, one iteration over KEYWORD_FROM_ATOM.items()
ImportKeywordToAtom ==
    /\ pc = "import_KEYWORD_TO_ATOM"
    /\ i < Len(KEYWORD_FROM_ATOM)
    /\ KEYWORD_TO_ATOM' = ToAtomInsert(KEYWORD_TO_ATOM, KEYWORD_FROM_ATOM[i + 1][1],
                                       KEYWORD_FROM_ATOM[i + 1][2])
    /\ i' = IF i + 1 = Len(KEYWORD_FROM_ATOM) THEN 0 ELSE i + 1
    /\ pc' = IF i + 1 = Len(KEYWORD_FROM_ATOM) THEN "import_reduce_f" ELSE pc
    /\ UNCHANGED <<KEYWORD_FROM_ATOM, reduce_f, deserialize_and_run_program, launch_vars>>

\* runtime_001.py:49-50
ImportReduceF ==
    /\ pc = "import_reduce_f"
    /\ reduce_f' = [quote_kw |-> DictGet(KEYWORD_TO_ATOM, "q"),
                    eval_kw  |-> DictGet(KEYWORD_TO_ATOM, "e"),
                    apply_kw |-> DictGet(KEYWORD_TO_ATOM, "a")]
    /\ pc' = "import_clvm_rs"
    /\ UNCHANGED <<i, KEYWORD_FROM_ATOM, KEYWORD_TO_ATOM, deserialize_and_run_program,
                   launch_vars>>

\* cmds.py:20-23
ImportClvmRs ==
    /\ pc = "import_clvm_rs"
    /\ \E available \in BOOLEAN :
          deserialize_and_run_program' = IF available THEN "clvm_rs" ELSE None
    /\ pc' = "parse_args"
    /\ UNCHANGED <<i, KEYWORD_FROM_ATOM, KEYWORD_TO_ATOM, reduce_f, launch_vars>>

\* cmds.py:99-104 and 123-184: run() or brun() is entered with a command line
ParseArgs ==
    /\ pc = "parse_args"
    /\ \E t \in {"run", "brun"} : tool_name' = t
    /\ \E a \in ArgSpace(KEYWORD_TO_ATOM) : args' = a
    /\ pc' = "read_input"
    /\ UNCHANGED <<import_vars, input_serialized, input_sexp, pre_eval_f, symbol_table,
                   call, cost_offset, oracle, outcome, cost, printed, ret>>

\* cmds.py:190-197; bytes.fromhex raises ValueError outside of any try
ReadHex ==
    /\ pc = "read_input"
    /\ args.hex
    /\ IF ~IsHex(args.path_or_code)
       THEN /\ ret' = "ValueError"
            /\ pc' = "done"
            /\ UNCHANGED <<args, input_serialized>>
       ELSE /\ args' = [args EXCEPT !.env = HexEnv(args.env)]
            /\ IF ~IsHex(HexEnv(args.env))
               THEN /\ ret' = "ValueError"
                    /\ pc' = "done"
                    /\ UNCHANGED input_serialized
               ELSE /\ input_serialized' = Some(HexModeInput(args.path_or_code, args.env))
                    /\ pc' = "setup_trace"
                    /\ UNCHANGED ret
    /\ UNCHANGED <<import_vars, tool_name, input_sexp, pre_eval_f, symbol_table, call,
                   cost_offset, oracle, outcome, cost, printed>>

\* cmds.py:198-213; only the read of the program text is inside a try
ReadText ==
    /\ pc = "read_input"
    /\ ~args.hex
    /\ IF IsSyntaxError(args.path_or_code)
       THEN /\ printed' = Append(printed, <<"FAIL", "SyntaxError">>)
            /\ ret' = "-1"
            /\ pc' = "done"
            /\ UNCHANGED <<args, input_sexp>>
       ELSE /\ args' = [args EXCEPT !.env = TextEnv(args.env)]
            /\ IF IsSyntaxError(TextEnv(args.env))
               THEN /\ ret' = "SyntaxError"
                    /\ pc' = "done"
                    /\ UNCHANGED <<input_sexp, printed>>
               ELSE /\ input_sexp' =
                          Some(TextModeInput(args.path_or_code, args.env, KEYWORD_TO_ATOM))
                    /\ pc' = "setup_trace"
                    /\ UNCHANGED <<ret, printed>>
    /\ UNCHANGED <<import_vars, tool_name, input_serialized, pre_eval_f, symbol_table,
                   call, cost_offset, oracle, outcome, cost>>

\* cmds.py:215-227; open and json.load raise outside of any try
SetupTrace ==
    /\ pc = "setup_trace"
    /\ IF args.symbol_table # None
       THEN \E readable \in BOOLEAN :
               IF readable
               THEN /\ symbol_table' = "loaded"
                    /\ pre_eval_f' = "make_trace_pre_eval"
                    /\ pc' = "evaluate"
                    /\ UNCHANGED ret
               ELSE /\ ret' = "OSError"
                    /\ pc' = "done"
                    /\ UNCHANGED <<symbol_table, pre_eval_f>>
       ELSE /\ pre_eval_f' = IF args.verbose \/ args.table
                             THEN "make_trace_pre_eval" ELSE None
            /\ pc' = "evaluate"
            /\ UNCHANGED <<symbol_table, ret>>
    /\ UNCHANGED <<import_vars, tool_name, args, input_serialized, input_sexp, call,
                   cost_offset, oracle, outcome, cost, printed>>

\* cmds.py:244-245, the input of the accelerated backend
SerializedInput(serialized, sexp) ==
    IF serialized = Nothing THEN as_bin(sexp[1]) ELSE serialized[1]

\* cmds.py:270-271, the input of run_program
SexpInput(serialized, sexp) ==
    IF sexp = Nothing THEN sexp_from_stream(serialized[1])
    ELSE [ok |-> TRUE, value |-> sexp[1], rest |-> <<>>]

\* cmds.py:234-275, the evaluator call launch_tool makes
EvaluatorCall(tool, a, hook, drp, serialized, sexp, offset, from_atom, to_atom) ==
    IF use_rust(tool, hook, a.backend, drp)
    THEN RustCall(tool, a, SerializedInput(serialized, sexp), offset, from_atom, to_atom)
    ELSE PythonCall(tool, a, SexpInput(serialized, sexp).value, hook, offset)

\* how that call ends; without clvm_rs neither STRICT_MODE nor the function exists
CallOutcome(c, a, drp, o) ==
    IF c.backend = "rust" /\ drp = None
    THEN Exception(IF a.strict THEN "NameError" ELSE "TypeError")
    ELSE run_program(c.max_cost, o)

\* cmds.py:229-276: the offset, the backend, the ceiling and the evaluator call
Evaluate ==
    /\ pc = "evaluate"
    /\ \E calibration_cost \in (53 - MaxCalibSkew)..(53 + MaxCalibSkew), o \in Oracles :
        LET offset == calculate_cost_offset(calibration_cost)
            rust   == use_rust(tool_name, pre_eval_f, args.backend,
                               deserialize_and_run_program)
            c      == EvaluatorCall(tool_name, args, pre_eval_f,
                                    deserialize_and_run_program, input_serialized,
                                    input_sexp, offset, KEYWORD_FROM_ATOM, KEYWORD_TO_ATOM)
        IN
        /\ cost_offset' = offset
        /\ oracle' = o
        /\ IF ~rust /\ ~SexpInput(input_serialized, input_sexp).ok
           THEN /\ outcome' = Exception("ValueError")
                /\ UNCHANGED <<input_serialized, input_sexp, call>>
           ELSE /\ input_serialized' = IF rust THEN Some(c.input) ELSE input_serialized
                /\ input_sexp' = IF rust THEN input_sexp ELSE Some(c.input)
                /\ call' = Some(c)
                /\ outcome' = CallOutcome(c, args, deserialize_and_run_program, o)
    /\ cost' = IF outcome'.kind = "ok" THEN outcome'.cost ELSE cost
    /\ pc' = CASE outcome'.kind = "ok"        -> "report"
               [] outcome'.kind = "EvalError" -> "except_EvalError"
               [] outcome'.kind = "Exception" -> "except_Exception"
    /\ UNCHANGED <<import_vars, tool_name, args, pre_eval_f, symbol_table, printed, ret>>

\* cmds.py:303-307, the trace output of the finally block
TraceLines ==
    (IF args.verbose \/ symbol_table # None
     THEN << <<"", "">>, <<"trace_to_text", "">> >> ELSE <<>>)
        \o (IF args.table THEN << <<"trace_to_table", "">> >> ELSE <<>>)

\* cmds.py:277-293 and the finally block 301-307
Report ==
    /\ pc = "report"
    /\ cost' = IF args.cost THEN cost + (IF cost > 0 THEN cost_offset ELSE 0) ELSE cost
    /\ printed' = printed
                    \o (IF args.cost THEN << <<"cost", cost'>> >> ELSE <<>>)
                    \o << <<"output", "result">> >>
                    \o TraceLines
    /\ ret' = "None"
    /\ pc' = "done"
    /\ UNCHANGED <<import_vars, tool_name, args, input_serialized, input_sexp, pre_eval_f,
                   symbol_table, call, cost_offset, oracle, outcome>>

\* cmds.py:294-297 and the finally block 301-307
ExceptEvalError ==
    /\ pc = "except_EvalError"
    /\ printed' = printed \o << <<"FAIL", outcome.msg>> >> \o TraceLines
    /\ ret' = "-1"
    /\ pc' = "done"
    /\ UNCHANGED <<import_vars, tool_name, args, input_serialized, input_sexp, pre_eval_f,
                   symbol_table, call, cost_offset, oracle, outcome, cost>>

\* cmds.py:298-300 and the finally block 301-307: the exception is raised again
ExceptException ==
    /\ pc = "except_Exception"
    /\ printed' = printed \o << <<"output", outcome.msg>> >> \o TraceLines
    /\ ret' = outcome.msg
    /\ pc' = "done"
    /\ UNCHANGED <<import_vars, tool_name, args, input_serialized, input_sexp, pre_eval_f,
                   symbol_table, call, cost_offset, oracle, outcome, cost>>

Next ==
    \/ ImportKeywordFromAtom
    \/ ImportKeywordToAtom
    \/ ImportReduceF
    \/ ImportClvmRs
    \/ ParseArgs
    \/ ReadHex
    \/ ReadText
    \/ SetupTrace
    \/ Evaluate
    \/ Report
    \/ ExceptEvalError
    \/ ExceptException

Spec == Init /\ [][Next]_vars

(***************************************************************************)
(* Properties.                                                             *)
(***************************************************************************)
\* the import of clvm has built the tables; launch_tool never writes them
TablesBuilt == pc \in {"import_reduce_f", "import_clvm_rs", "parse_args"}

\* the last position (from 0) at which KEYWORDS lists the keyword k
LastPosition(k) ==
    CHOOSE n \in 0..(Len(KEYWORDS) - 1) :
        /\ KEYWORDS[n + 1] = k
        /\ \A m \in (n + 1)..(Len(KEYWORDS) - 1) : KEYWORDS[m + 1] # k

\* C1 as stated: KEYWORD_FROM_ATOM and KEYWORD_TO_ATOM are mutual inverses and
\* both have one entry per position of KEYWORDS.
C1_MutualInverses ==
    TablesBuilt =>
        /\ \A a \in DictKeys(KEYWORD_FROM_ATOM) :
              DictGet(KEYWORD_TO_ATOM, DictGet(KEYWORD_FROM_ATOM, a)) = a
        /\ \A k \in DictKeys(KEYWORD_TO_ATOM) :
              DictGet(KEYWORD_FROM_ATOM, DictGet(KEYWORD_TO_ATOM, k)) = k
        /\ Len(KEYWORD_FROM_ATOM) = Len(KEYWORDS)
        /\ Len(KEYWORD_TO_ATOM) = Len(KEYWORDS)

\* C1 amended: KEYWORD_FROM_ATOM has one entry per position of KEYWORDS and
\* KEYWORD_TO_ATOM one per distinct keyword; KEYWORD_FROM_ATOM[KEYWORD_TO_ATOM[k]] = k
\* for every name k; KEYWORD_TO_ATOM[KEYWORD_FROM_ATOM[a]] is the atom of the last
\* position that lists a's keyword, which is a for every opcode atom but the atom
\* of 0, whose keyword "." is listed again at position 15.
C1_ToAtomIsRightInverse ==
    TablesBuilt =>
        /\ Len(KEYWORD_FROM_ATOM) = Len(KEYWORDS)
        /\ Len(KEYWORD_TO_ATOM) = Cardinality({KEYWORDS[n] : n \in 1..Len(KEYWORDS)})
        /\ Len(KEYWORD_TO_ATOM) = Len(KEYWORDS) - 1
        /\ \A k \in DictKeys(KEYWORD_TO_ATOM) :
              /\ DictHas(KEYWORD_FROM_ATOM, DictGet(KEYWORD_TO_ATOM, k))
              /\ DictGet(KEYWORD_FROM_ATOM, DictGet(KEYWORD_TO_ATOM, k)) = k
        /\ \A n \in 0..(Len(KEYWORDS) - 1) :
              /\ DictHas(KEYWORD_FROM_ATOM, int_to_bytes(n))
              /\ DictGet(KEYWORD_TO_ATOM, DictGet(KEYWORD_FROM_ATOM, int_to_bytes(n)))
                    = int_to_bytes(LastPosition(KEYWORDS[n + 1]))
              /\ n # 0 => LastPosition(KEYWORDS[n + 1]) = n
        /\ DictGet(KEYWORD_TO_ATOM, DictGet(KEYWORD_FROM_ATOM, int_to_bytes(0)))
              = int_to_bytes(15)

C1_Witness ==
    /\ pc = "import_reduce_f"
    /\ DictGet(KEYWORD_FROM_ATOM, int_to_bytes(0)) = "."
    /\ DictGet(KEYWORD_FROM_ATOM, int_to_bytes(15)) = "."
    /\ DictGet(KEYWORD_TO_ATOM, ".") = int_to_bytes(15)

HasLine(kind) == \E n \in 1..Len(printed) : printed[n][1] = kind

HasCostLine(value) ==
    \E n \in 1..Len(printed) : printed[n][1] = "cost" /\ printed[n][2] = value

\* C2 as stated: when the evaluation fails with an EvalError and -c was given, a
\* cost line is printed on the failure path too.
C2_CostReportedOnFailure ==
    (pc = "done" /\ outcome.kind = "EvalError" /\ args.cost) => HasLine("cost")

\* the failures C3 is about
ReadTextFailed ==
    /\ tool_name # None
    /\ ~args.hex
    /\ (IsSyntaxError(args.path_or_code) \/ IsSyntaxError(args.env))

EvaluationFailed == outcome.kind \in {"EvalError", "Exception"}

\* C3 as stated: a failure reading the program text or the environment text, or
\* evaluating, ends launch_tool with a FAIL: line and the return value -1.
C3_FailuresAreStructured ==
    (pc = "done" /\ (ReadTextFailed \/ EvaluationFailed)) =>
        (ret = "-1" /\ HasLine("FAIL"))

\* the program, the input value, and the strict flag of an evaluator call
CallScript(c) == c.run_script[2]

CallInput(c) == IF c.backend = "rust" THEN sexp_from_stream(c.input).value ELSE c.input

CallStrict(c) == IF c.backend = "rust" THEN c.strict # 0 ELSE c.strict

\* the call launch_tool makes from the current state when no trace hook is given
CallWithoutHook ==
    EvaluatorCall(tool_name, args, None, deserialize_and_run_program, input_serialized,
                  input_sexp, cost_offset, KEYWORD_FROM_ATOM, KEYWORD_TO_ATOM)

EvaluatedWithHook == call # Nothing /\ pre_eval_f # None

\* C4 as stated: with a trace hook the same program, environment, ceiling and
\* strict flag go to the same backend as without it, with the same outcome.
C4_HookHasNoEffect ==
    EvaluatedWithHook =>
        LET plain == CallWithoutHook IN
        /\ call[1].backend = plain.backend
        /\ CallScript(call[1]) = CallScript(plain)
        /\ CallInput(call[1]) = CallInput(plain)
        /\ call[1].max_cost = plain.max_cost
        /\ CallStrict(call[1]) = CallStrict(plain)
        /\ outcome = CallOutcome(plain, args, deserialize_and_run_program, oracle)

\* C4 amended: with a trace hook launch_tool hands the same program, environment,
\* ceiling and strict flag to the evaluator as without it, but always to the python
\* run_program; the backend, and with it the outcome, is that of the run without
\* the hook whenever that run uses python too.
C4_HookKeepsEvaluatorArguments ==
    EvaluatedWithHook =>
        LET plain == CallWithoutHook IN
        /\ call[1].backend = "python"
        /\ call[1].pre_eval_f = pre_eval_f
        /\ CallScript(call[1]) = CallScript(plain)
        /\ CallInput(call[1]) = CallInput(plain)
        /\ call[1].max_cost = plain.max_cost
        /\ CallStrict(call[1]) = CallStrict(plain)
        /\ plain.backend = "python" =>
              outcome = CallOutcome(plain, args, deserialize_and_run_program, oracle)

C4_Witness ==
    /\ pc = "done"
    /\ EvaluatedWithHook
    /\ args.table /\ ~args.verbose /\ args.symbol_table = None
    /\ args.strict
    /\ CallWithoutHook.backend = "rust"
    /\ deserialize_and_run_program # None
    /\ outcome.kind = "ok"

\* C5 as stated: --backend rust makes launch_tool evaluate with the accelerated
\* backend and --backend python with the python run_program, whatever the tool
\* name, the trace flags and the availability of the accelerated module.
C5_BackendIsForced ==
    pc \in {"report", "except_EvalError", "except_Exception", "done"} /\ call # Nothing =>
        /\ args.backend = "rust" =>
              (call[1].backend = "rust" /\ outcome.kind \in {"ok", "EvalError"})
        /\ args.backend = "python" =>
              (call[1].backend = "python" /\ outcome.kind \in {"ok", "EvalError"})

\* C6 as stated: the opcodes of q, e and a that make_reduce_f gets are pairwise
\* distinct and none of them is in the opcode table built for the accelerated
\* backend.
C6_SameThreeOpcodes ==
    (call # Nothing /\ call[1].backend = "rust") =>
        LET three == {reduce_f.quote_kw, reduce_f.eval_kw, reduce_f.apply_kw} IN
        /\ Cardinality(three) = 3
        /\ \A n \in 1..Len(call[1].opcodes) : call[1].opcodes[n][2] \notin three

\* C7: hex mode and text mode build the same evaluator input. In hex mode the
\* bytes built are the serialization of the pair of the program and the
\* environment they encode; in text mode the pair built serializes to the bytes
\* hex mode builds from the bytecode of the two texts; an environment that is not
\* given is nil in both.
C7_HexAndTextInputAgree ==
    /\ (args.hex /\ input_serialized # Nothing) =>
          LET p == sexp_from_stream(fromhex(args.path_or_code))
              e == sexp_from_stream(fromhex(args.env))
              b == sexp_from_stream(input_serialized[1])
          IN  /\ p.ok /\ p.rest = <<>>
              /\ e.ok /\ e.rest = <<>>
              /\ input_serialized[1] = as_bin(to_sexp_f(p.value, e.value))
              /\ b.ok /\ b.rest = <<>> /\ b.value = to_sexp_f(p.value, e.value)
              /\ input_sexp # Nothing => input_sexp[1] = to_sexp_f(p.value, e.value)
              /\ args.env = HexEnv("") =>
                    b.value = TextModeInput(CHOOSE t \in ProgramTexts :
                                                ~IsSyntaxError(t) /\
                                                opc(t, KEYWORD_TO_ATOM) = args.path_or_code,
                                            "", KEYWORD_TO_ATOM)
    /\ (~args.hex /\ input_sexp # Nothing) =>
          LET hexP == opc(args.path_or_code, KEYWORD_TO_ATOM)
              hexE == opc(args.env, KEYWORD_TO_ATOM)
              b    == sexp_from_stream(HexModeInput(hexP, hexE))
          IN  /\ HexModeInput(hexP, hexE) = as_bin(input_sexp[1])
              /\ b.ok /\ b.rest = <<>> /\ b.value = input_sexp[1]
              /\ input_serialized # Nothing =>
                    input_serialized[1] = HexModeInput(hexP, hexE)
              /\ args.env = TextEnv("") => HexModeInput(hexP, "") = as_bin(input_sexp[1])

C7_Witness ==
    /\ pc = "done"
    /\ args.hex
    /\ args.path_or_code = "ff0181ff"
    /\ args.env = "80"
    /\ input_serialized = Some(<<255, 255, 1, 129, 255, 128>>)
    /\ input_sexp = Some(Pair(Pair(Atom(<<1>>), Atom(<<255>>)), nil))

\* C8 as stated: the ceiling handed to the evaluator is never negative, and it is
\* 0 only when --max-cost 0 was given.
C8_CeilingNeverDropped ==
    call # Nothing =>
        /\ call[1].max_cost >= 0
        /\ call[1].max_cost = 0 => args.max_cost = 0

\* C9 as stated: for a non-zero --max-cost M and a raw cost c > 0 the evaluator
\* gets the ceiling M - offset, -c displays c + offset, and the run stays within
\* its ceiling exactly when the displayed cost is at most M.
C9_CeilingAndDisplayAgree ==
    (/\ pc = "done"
     /\ call # Nothing
     /\ args.max_cost # 0
     /\ ~oracle.raises
     /\ outcome.kind \in {"ok", "EvalError"}) =>
        /\ call[1].max_cost = args.max_cost - cost_offset
        /\ (outcome.kind = "ok" /\ args.cost) => HasCostLine(oracle.raw_cost + cost_offset)
        /\ outcome.kind = "ok" <=> oracle.raw_cost + cost_offset <= args.max_cost
====
